---- MODULE Spec2Model ----
(***************************************************************************)
(* A model of the Burger coroutine runtime: the Scheduler that routes      *)
(* submitted work to Processors (net/Scheduler.cc), the Processor's run    *)
(* loop, task queues and load counter (net/Processor.cc), the Scheduler's  *)
(* start/stop/wait life cycle, the coroutine swap primitives as the        *)
(* coroutine test drives them (base/tests/Coroutine_test03.cc), the timers *)
(* added through the Scheduler, and a TcpConnection with its Channel       *)
(* events (net/TcpConnection.cc).                                          *)
(***************************************************************************)
EXTENDS Integers, Sequences, FiniteSets, TLC

(***************************************************************************)
(* Bounds of the model.                                                    *)
(***************************************************************************)
\* Scheduler objects living in the process.
NSched == 2
\* Largest value given to setThreadNum (the main thread included).
MaxThreadNum == 3
\* Tasks submitted through Scheduler::addTask over a run.
MaxTasks == 3
\* Threads that call Scheduler::addTask.
NSubmit == 2
\* Coroutine objects one Processor may create over a run.
MaxCo == 7
\* Times one activation of a user coroutine may suspend itself.
MaxSuspend == 1
\* Calls made on the Processor by a thread that does not own it.
MaxForeign == 1
\* Timer expiries and I/O events the kernel reports to one Processor.
MaxEvents == 1
\* Tasks submitted to the Processor studied in detail.
MaxProcTasks == 1
\* Largest value given to setThreadNum where the life cycle is studied.
MaxLifeThreadNum == 2
\* Largest number of SwapOut calls in a coroutine's callback.
MaxSwapOut == 2
\* The threads main() starts in the coroutine test.
NCoThreads == 3
\* Timers added to one Processor's CoTimerQueue.
NTimers == 2
\* Expiries of one timer.
MaxExpire == 4
\* Entries of workProcVec_ past which start() is not called again.
MaxVec == 3
\* Calls of TcpConnection::send on the connection.
MaxSends == 2
\* Bytes of one message given to send.
MaxMsgLen == 2
\* Readable events that bring data.
MaxReads == 1

Scheds == 1..NSched
Submitters == 1..NSubmit
\* A Processor is named by its Scheduler and its place: 0 is the main
\* Processor, i >= 1 the i-th entry of workProcVec_.
Procs == {<<s, i>> : s \in Scheds, i \in 0..(MaxThreadNum - 1)}
NULL == <<0, 0>>
\* The holder of a mutex nobody holds (a holder is a thread).
UNLOCKED == <<0, 0>>
\* The thread of submitter t, named like a Processor thread (which is named by
\* its Processor).
SubThread(t) == <<0, t>>

VARIABLES
    \* ---- Scheduler (net/Scheduler.cc) ----
    threadNum_,      \* [Scheds -> Nat]: setThreadNum's value
    running_,        \* [Scheds -> BOOLEAN]
    mainProc_,       \* [Scheds -> Procs \cup {NULL}]
    workProcVec_,    \* [Scheds -> Seq(Procs)]
    schedMutex,      \* [Scheds -> holder]: Scheduler::mutex_
    index,           \* the function-local static of pickOneProcesser
    \* ---- a thread inside Scheduler::addTask ----
    subPc,           \* [Submitters -> position]
    subArg,          \* [Submitters -> [sched, task]], a task being <<thread, number>>
    subProc,         \* [Submitters -> Procs \cup {NULL}]: the local `proc`
    subSnap,         \* [Submitters -> Seq]: the vector as emplace_back read it
    subRaced,        \* [Submitters -> BOOLEAN]: the vector changed under it
    nextTask,        \* the next task to be submitted
    routed,          \* [Scheds -> Seq([proc, task])]: what pickOneProcesser returned
    aborted,         \* an assert of the program failed
    \* ---- Processor (net/Processor.cc), as the routing sees it ----
    pendingTasks_,   \* [Procs -> Seq(task)]
    procMutex,       \* [Procs -> holder]: Processor::mutex_
    tasks,           \* [Procs -> Seq(task)]: the local of addPendingTasksIntoQueue
    runnableCoQue_,  \* [Procs -> Seq(task)]
    startedLog,      \* [Procs -> Seq(task)]: tasks in the order they began to run
    wpc,             \* [Procs -> position of the run loop]
    wakeupFd_,       \* [Procs -> BOOLEAN]: the eventfd is readable
    \* ---- the Processor studied in detail (net/Processor.cc) ----
    proc,            \* its members, its coroutines and the locals of run()
    \* ---- the life cycle of Scheduler 1 (net/Scheduler.cc, net/Processor.cc) ----
    stop_,           \* [Procs -> BOOLEAN]: Processor::stop_
    hook,            \* [Procs -> BOOLEAN]: the hook flag of the Processor's thread
    quit_,           \* Scheduler::quit_
    thread_,         \* Scheduler::thread_: "none", "started" or "joined"
    tpc,             \* the position of start() on thread_
    cpc,             \* [Callers -> position inside startAsync, stop or wait]
    joinPc,          \* the position of joinThread
    joinBy,          \* the caller whose stop() led to joinThread
    detached,        \* joinThread runs on a detached helper thread
    \* ---- the coroutine test (base/tests/Coroutine_test03.cc) ----
    nSwapOut,        \* [CoThreads -> Nat]: SwapOut calls in the callback
    coState,         \* [CoThreads -> state of the thread's coroutine]
    coLog,           \* [CoThreads -> Seq(Nat)]: what the callback logged
    nSwapIn,         \* [CoThreads -> Nat]: swapIn calls the driver has made
    nSegment,        \* [CoThreads -> Nat]: segments of the callback that ran
    coPos,           \* [CoThreads -> "main" or "co"]: who runs on the thread
    \* ---- the timers of a Processor's CoTimerQueue ----
    timers,          \* [Timers -> the entry of the timer and its payload's runs]
    \* ---- one TcpConnection, its Channel, Socket and EventLoop ----
    conn             \* the members of the connection and what it has done

lifeVars == <<stop_, hook, quit_, thread_, tpc, cpc, joinPc, joinBy, detached>>
coVars == <<nSwapOut, coState, coLog, nSwapIn, nSegment, coPos>>
extVars == <<timers, conn>>

schedVars == <<threadNum_, running_, mainProc_, workProcVec_, schedMutex, index,
               subPc, subArg, subProc, subSnap, subRaced, nextTask, routed,
               aborted>>
workVars == <<pendingTasks_, procMutex, tasks, runnableCoQue_, startedLog, wpc,
              wakeupFd_>>

vars == <<schedVars, workVars, proc, lifeVars, coVars, extVars>>

\* The Processor studied in detail: the main Processor of Scheduler 1.
P0 == <<1, 0>>
\* Coroutine objects; 0 stands for no coroutine.
Shells == 1..MaxCo
\* The threads of the user's program, the Processors of Scheduler 1 (each
\* names its own thread), and who may call into the Scheduler: a user
\* thread, or a coroutine running on a Processor's thread.
Users == {SubThread(t) : t \in Submitters}
LifeProcs == {p \in Procs : p[1] = 1}
Callers == Users \cup LifeProcs
\* The threads of the coroutine test.
CoThreads == 1..NCoThreads
\* The timers the program adds.
Timers == 1..NTimers

(***************************************************************************)
(* Scheduler: start, and the routing of submissions.                       *)
(***************************************************************************)
InitSched ==
    /\ threadNum_ \in [Scheds -> 1..MaxThreadNum]
    /\ running_ = [s \in Scheds |-> FALSE]
    /\ mainProc_ = [s \in Scheds |-> NULL]
    /\ workProcVec_ = [s \in Scheds |-> <<>>]
    /\ schedMutex = [s \in Scheds |-> UNLOCKED]
    /\ index = 0
    /\ subPc = [t \in Submitters |-> "idle"]
    /\ subArg = [t \in Submitters |-> [sched |-> 0, task |-> <<0, 0>>]]
    /\ subProc = [t \in Submitters |-> NULL]
    /\ subSnap = [t \in Submitters |-> <<>>]
    /\ subRaced = [t \in Submitters |-> FALSE]
    /\ nextTask = 1
    /\ routed = [s \in Scheds |-> <<>>]
    /\ aborted = FALSE

InitWork ==
    /\ pendingTasks_ = [p \in Procs |-> <<>>]
    /\ procMutex = [p \in Procs |-> UNLOCKED]
    /\ tasks = [p \in Procs |-> <<>>]
    /\ runnableCoQue_ = [p \in Procs |-> <<>>]
    /\ startedLog = [p \in Procs |-> <<>>]
    /\ wpc = [p \in Procs |-> "off"]
    /\ wakeupFd_ = [p \in Procs |-> FALSE]

\* The Scheduler and its Processors before start.
InitLife ==
    /\ stop_ = [p \in Procs |-> FALSE]
    /\ hook = [p \in Procs |-> FALSE]
    /\ quit_ = FALSE
    /\ thread_ = "none"
    /\ tpc = "none"
    /\ cpc = [c \in Callers |-> "idle"]
    /\ joinPc = "none"
    /\ joinBy = NULL
    /\ detached = FALSE

\* Every thread of the test before it makes its coroutine; k[t] is the
\* number of SwapOut calls in the callback of thread t's coroutine.
InitCo(k) ==
    /\ nSwapOut = k
    /\ coState = [t \in CoThreads |-> "INIT"]
    /\ coLog = [t \in CoThreads |-> <<>>]
    /\ nSwapIn = [t \in CoThreads |-> 0]
    /\ nSegment = [t \in CoThreads |-> 0]
    /\ coPos = [t \in CoThreads |-> "main"]

\* No coroutine test is run.
NoCo == [t \in CoThreads |-> 0]

\* An entry of the CoTimerQueue and what became of its payload: whether the
\* timer was added, its interval is non-zero, cancel was applied, the entry
\* is in the ordered set, how many runs of the payload are handed to the
\* Processor and not yet made, how many were made, and how many had been
\* made when cancel was applied.
NoTimer ==
    [added |-> FALSE, periodic |-> FALSE, canceled |-> FALSE, armed |-> FALSE,
     queued |-> 0, fired |-> 0, firedAtCancel |-> 0]

\* TcpConnection::TcpConnection: status kConnecting, the Channel watches
\* nothing, both buffers empty, nothing queued on the EventLoop.  Bytes are
\* numbered in the order sendInLoop takes them on.
NewConn ==
    [ status     |-> "kConnecting",
      est        |-> FALSE,      \* connectEstablished was called
      reading    |-> FALSE,      \* channel_ watches readability
      writing    |-> FALSE,      \* channel_->isWriting()
      removed    |-> FALSE,      \* channel_->remove() was called
      out        |-> <<>>,       \* outputBuffer_
      sent       |-> <<>>,       \* the bytes the socket has accepted
      given      |-> 0,          \* bytes sendInLoop has taken on so far
      passed     |-> 0,          \* bytes passed to sendInLoop so far
      fault      |-> FALSE,      \* a write failed with EPIPE or ECONNRESET
      shutWr     |-> FALSE,      \* socket_->shutdownWrite() was called
      fns        |-> <<>>,       \* functors queued on loop_
      up         |-> 0,          \* connectionCallback_ calls, connected
      down       |-> 0,          \* connectionCallback_ calls, not connected
      closed     |-> 0,          \* closeCallback_ calls
      peerClosed |-> FALSE,      \* the peer has closed its side
      sends      |-> 0,          \* calls of send
      reads      |-> 0 ]         \* readable events with data

\* No timer has been added, the connection is new.
InitExt ==
    /\ timers = [i \in Timers |-> NoTimer]
    /\ conn = NewConn

\* The worker Processors start() creates: threadNum_ - 1 of them, in order,
\* each named by the place in workProcVec_ it is pushed to.
NewWorkers(s) ==
    [i \in 1..(threadNum_[s] - 1) |-> <<s, Len(workProcVec_[s]) + i>>]

\* Scheduler::start up to the call of mainProc->run(): one main Processor,
\* threadNum_ - 1 workers appended to workProcVec_, running_ set.
SchedStart(s) ==
    /\ ~aborted
    /\ ~running_[s]
    /\ mainProc_' = [mainProc_ EXCEPT ![s] = <<s, 0>>]
    /\ workProcVec_' = [workProcVec_ EXCEPT ![s] = @ \o NewWorkers(s)]
    /\ running_' = [running_ EXCEPT ![s] = TRUE]
    /\ wpc' = [p \in Procs |->
                 IF p[1] = s /\ p[2] < threadNum_[s] THEN "drain" ELSE wpc[p]]
    /\ UNCHANGED <<threadNum_, schedMutex, index, subPc, subArg, subProc,
                   subSnap, subRaced, nextTask, routed, aborted>>
    /\ UNCHANGED <<pendingTasks_, procMutex, tasks, runnableCoQue_, startedLog,
                   wakeupFd_, proc>>
    /\ UNCHANGED <<lifeVars, coVars, extVars>>

\* Scheduler::addTask is entered: pickOneProcesser reads mainProc_ into its
\* local before it takes the lock.
SubEnter(t, s) ==
    /\ ~aborted
    /\ subPc[t] = "idle"
    /\ nextTask <= MaxTasks
    /\ subArg' = [subArg EXCEPT ![t] = [sched |-> s, task |-> <<t, nextTask>>]]
    /\ nextTask' = nextTask + 1
    /\ subProc' = [subProc EXCEPT ![t] = mainProc_[s]]
    /\ subPc' = [subPc EXCEPT ![t] = "lock"]
    /\ UNCHANGED <<threadNum_, running_, mainProc_, workProcVec_, schedMutex,
                   index, subSnap, subRaced, routed, aborted>>
    /\ UNCHANGED <<workVars, proc>>
    /\ UNCHANGED <<lifeVars, coVars, extVars>>

\* Scheduler::addTask called on a Scheduler that is running.
SubCall(t, s) == running_[s] /\ SubEnter(t, s)

\* pickOneProcesser under mutex_: the assert on the static index, the
\* selection workProcVec_[index++].
SubPick(t) ==
    LET s == subArg[t].sched
        vec == workProcVec_[s]
    IN  /\ ~aborted
        /\ subPc[t] = "lock"
        /\ schedMutex[s] = UNLOCKED
        /\ IF vec = <<>>
             THEN /\ schedMutex' = [schedMutex EXCEPT ![s] = SubThread(t)]
                  /\ subPc' = [subPc EXCEPT ![t] = "mod"]
                  /\ UNCHANGED <<index, subProc, aborted>>
             ELSE IF index < Len(vec)
                    THEN /\ schedMutex' = [schedMutex EXCEPT ![s] = SubThread(t)]
                         /\ subProc' = [subProc EXCEPT ![t] = vec[index + 1]]
                         /\ index' = index + 1
                         /\ subPc' = [subPc EXCEPT ![t] = "mod"]
                         /\ UNCHANGED aborted
                    ELSE /\ aborted' = TRUE
                         /\ UNCHANGED <<schedMutex, index, subProc, subPc>>
        /\ UNCHANGED <<threadNum_, running_, mainProc_, workProcVec_, subArg,
                       subSnap, subRaced, nextTask, routed>>
        /\ UNCHANGED <<workVars, proc>>
        /\ UNCHANGED <<lifeVars, coVars, extVars>>

\* The value pickOneProcesser leaves in the static index.
NextIndex(i, size) == i % size

\* pickOneProcesser: index = index % size, the lock released, proc returned.
SubReturn(t) ==
    LET s == subArg[t].sched
        vec == workProcVec_[s]
    IN  /\ ~aborted
        /\ subPc[t] = "mod"
        /\ index' = IF vec = <<>> THEN index ELSE NextIndex(index, Len(vec))
        /\ schedMutex' = [schedMutex EXCEPT ![s] = UNLOCKED]
        /\ routed' = [routed EXCEPT ![s] =
                      Append(@, [proc |-> subProc[t], task |-> subArg[t].task])]
        /\ subPc' = [subPc EXCEPT ![t] = "append"]
        /\ UNCHANGED <<threadNum_, running_, mainProc_, workProcVec_, subArg,
                       subProc, subSnap, subRaced, nextTask, aborted>>
        /\ UNCHANGED <<workVars, proc>>
        /\ UNCHANGED <<lifeVars, coVars, extVars>>

(***************************************************************************)
(* Processor::addPendingTask, called on the submitter's thread.  The code  *)
(* takes no lock around pendingTasks_.emplace_back, so the vector's        *)
(* read-modify-write is two steps that other threads may come between.     *)
(***************************************************************************)
\* Scheduler::addTask's assert(proc != nullptr), then emplace_back reads the
\* vector.
SubLoad(t) ==
    /\ ~aborted
    /\ subPc[t] = "append"
    /\ IF subProc[t] = NULL
         THEN /\ aborted' = TRUE
              /\ UNCHANGED <<subSnap, subRaced, subPc>>
         ELSE /\ subSnap' = [subSnap EXCEPT ![t] = pendingTasks_[subProc[t]]]
              /\ subRaced' = [subRaced EXCEPT ![t] = FALSE]
              /\ subPc' = [subPc EXCEPT ![t] = "store"]
              /\ UNCHANGED aborted
    /\ UNCHANGED <<threadNum_, running_, mainProc_, workProcVec_, schedMutex,
                   index, subArg, subProc, nextTask, routed>>
    /\ UNCHANGED <<workVars, proc>>
    /\ UNCHANGED <<lifeVars, coVars, extVars>>

\* What an emplace_back may leave in the vector.  Undisturbed, the element is
\* appended.  When another thread changed the vector in between (a data
\* race, undefined behaviour) the element may be appended, be written where
\* nobody reads it (lost), or be appended to the contents read before.
AppendOutcomes(cur, snap, raced, elem) ==
    IF raced THEN {Append(cur, elem), cur, Append(snap, elem)}
             ELSE {Append(cur, elem)}

\* The threads whose emplace_back on p is under way, t excepted.
MidAppend(p, t) == {u \in Submitters : u # t /\ subPc[u] = "store" /\ subProc[u] = p}

\* emplace_back writes the vector; then wakeupEpollCo.
SubStore(t) ==
    LET p == subProc[t] IN
    /\ ~aborted
    /\ subPc[t] = "store"
    /\ \E out \in AppendOutcomes(pendingTasks_[p], subSnap[t], subRaced[t],
                                 subArg[t].task) :
          pendingTasks_' = [pendingTasks_ EXCEPT ![p] = out]
    /\ subRaced' = [u \in Submitters |->
                      IF u \in MidAppend(p, t) THEN TRUE ELSE subRaced[u]]
    /\ wakeupFd_' = [wakeupFd_ EXCEPT ![p] = TRUE]
    /\ subPc' = [subPc EXCEPT ![t] = "idle"]
    /\ UNCHANGED <<threadNum_, running_, mainProc_, workProcVec_, schedMutex,
                   index, subArg, subProc, subSnap, nextTask, routed, aborted>>
    /\ UNCHANGED <<procMutex, tasks, runnableCoQue_, startedLog, wpc, proc>>
    /\ UNCHANGED <<lifeVars, coVars, extVars>>

(***************************************************************************)
(* Processor::run as far as the routing needs it.  One iteration of its    *)
(* loop is a coroutine turn followed by addPendingTasksIntoQueue; the turn *)
(* touches only what the owning thread sees, so it is taken together with  *)
(* the step before it.                                                     *)
(***************************************************************************)
\* addPendingTasksIntoQueue: under mutex_, tasks.swap(pendingTasks_).
DrainLock(p) ==
    /\ ~aborted
    /\ wpc[p] = "drain"
    /\ procMutex[p] = UNLOCKED
    /\ procMutex' = [procMutex EXCEPT ![p] = p]
    /\ tasks' = [tasks EXCEPT ![p] = pendingTasks_[p]]
    /\ pendingTasks_' = [pendingTasks_ EXCEPT ![p] = tasks[p]]
    /\ subRaced' = [u \in Submitters |->
                      IF u \in MidAppend(p, 0) THEN TRUE ELSE subRaced[u]]
    /\ wpc' = [wpc EXCEPT ![p] = "unlock"]
    /\ UNCHANGED <<runnableCoQue_, startedLog, wakeupFd_, proc>>
    /\ UNCHANGED <<threadNum_, running_, mainProc_, workProcVec_, schedMutex,
                   index, subPc, subArg, subProc, subSnap, nextTask, routed,
                   aborted>>
    /\ UNCHANGED <<lifeVars, coVars, extVars>>

\* The queue after addTask was called on every element of ts, in order.
EnqueueAll(q, ts) == q \o ts

\* addPendingTasksIntoQueue: the lock released, addTask for each task taken.
\* Then the next turn of the loop: the head of the runnable queue is
\* dequeued and starts to run (the epoll coroutine when the queue is empty).
DrainUnlock(p) ==
    LET q == EnqueueAll(runnableCoQue_[p], tasks[p]) IN
    /\ ~aborted
    /\ wpc[p] = "unlock"
    /\ procMutex' = [procMutex EXCEPT ![p] = UNLOCKED]
    /\ tasks' = [tasks EXCEPT ![p] = <<>>]
    /\ IF q # <<>>
         THEN /\ startedLog' = [startedLog EXCEPT ![p] = Append(@, Head(q))]
              /\ runnableCoQue_' = [runnableCoQue_ EXCEPT ![p] = Tail(q)]
         ELSE UNCHANGED <<startedLog, runnableCoQue_>>
    /\ wpc' = [wpc EXCEPT ![p] = "drain"]
    /\ UNCHANGED <<pendingTasks_, wakeupFd_, proc>>
    /\ UNCHANGED schedVars
    /\ UNCHANGED <<lifeVars, coVars, extVars>>

(***************************************************************************)
(* The Processor in detail.  proc holds the members of the Processor       *)
(* (runnableCoQue_, idleCoQue_, load_, stop_, the CoEpoll's isEpolling_    *)
(* and its registrations), the coroutines it created (state, callback) and *)
(* the locals of run() (cur, epollCo).                                     *)
(***************************************************************************)
\* Callbacks.  A submitted task is <<thread, number>> with thread >= 1; the
\* callbacks the runtime itself creates are numbered under thread 0: the
\* "Wake" and "timerQue" lambdas of the constructor, CoEpoll::poll, and the
\* callback of a coroutine made by a foreign thread.
NoCb == <<0, 0>>
WakeCb == <<0, 1>>
TimerCb == <<0, 2>>
EpollCb == <<0, 3>>
ForeignCb == <<0, 4>>
IsUserCb(cb) == cb \notin {NoCb, WakeCb, TimerCb, EpollCb}

EmptyProc ==
    [ runnableCoQue_ |-> <<>>,
      idleCoQue_     |-> <<>>,
      load_          |-> 0,
      stop_          |-> FALSE,
      isEpolling_    |-> FALSE,
      hookEnabled    |-> FALSE,
      waiting        |-> {},
      coState        |-> [c \in Shells |-> "NONE"],
      coCb           |-> [c \in Shells |-> NoCb],
      coLeft         |-> [c \in Shells |-> 0],
      cur            |-> 0,
      epollCo        |-> 0,
      foreign        |-> 0,
      events         |-> 0 ]

InitProc == proc = EmptyProc

\* std::make_shared<Coroutine>(cb, name): the next coroutine object, INIT.
FreeShells(pr) == {c \in Shells : pr.coState[c] = "NONE"}
NewShell(pr) == CHOOSE c \in FreeShells(pr) : \A d \in FreeShells(pr) : c <= d
MakeCo(pr, c, cb) ==
    [pr EXCEPT !.coState[c] = "INIT", !.coCb[c] = cb, !.coLeft[c] = MaxSuspend]

\* Processor::resetAndGetCo: a new coroutine when the idle list is empty,
\* else the front of the idle list, reset to the new callback.  The result
\* is the pair of the Processor and the coroutine.
resetAndGetCo(pr, cb) ==
    IF pr.idleCoQue_ = <<>>
      THEN <<MakeCo(pr, NewShell(pr), cb), NewShell(pr)>>
      ELSE LET co == Head(pr.idleCoQue_) IN
           <<MakeCo([pr EXCEPT !.idleCoQue_ = Tail(@)], co, cb), co>>

\* Processor::addTask(Coroutine::ptr): the state set to EXEC, the coroutine
\* enqueued, load_ incremented.  (The wakeup it writes while the CoEpoll is
\* polling is made by the action that calls it.)
addTaskCo(pr, co) ==
    [pr EXCEPT !.coState[co] = "EXEC",
               !.runnableCoQue_ = Append(@, co),
               !.load_ = @ + 1]

\* Processor::addTask(cb, name) == addTask(resetAndGetCo(cb, name)).
addTaskCb(pr, cb) ==
    LET r == resetAndGetCo(pr, cb) IN addTaskCo(r[1], r[2])

\* addTask(cb) for every callback of cbs, in order.
RECURSIVE addTasks(_, _)
addTasks(pr, cbs) ==
    IF cbs = <<>> THEN pr ELSE addTasks(addTaskCb(pr, Head(cbs)), Tail(cbs))

\* Coroutine objects a call of addTasks(pr, cbs) has to create.
Needed(pr, cbs) ==
    IF Len(cbs) > Len(pr.idleCoQue_) THEN Len(cbs) - Len(pr.idleCoQue_) ELSE 0

\* Processor::Processor: the two coroutines every Processor runs.
ProcessorCtor == addTaskCb(addTaskCb(EmptyProc, WakeCb), TimerCb)

\* Scheduler::start with threadNum_ = 1: the main Processor constructed,
\* running_ set; mainProc->run() follows.
MainStart ==
    /\ ~aborted
    /\ ~running_[1]
    /\ threadNum_[1] = 1
    /\ wpc[P0] = "off"
    /\ mainProc_' = [mainProc_ EXCEPT ![1] = P0]
    /\ workProcVec_' = [workProcVec_ EXCEPT ![1] = @ \o NewWorkers(1)]
    /\ running_' = [running_ EXCEPT ![1] = TRUE]
    /\ proc' = ProcessorCtor
    /\ wpc' = [wpc EXCEPT ![P0] = "created"]
    /\ UNCHANGED <<threadNum_, schedMutex, index, subPc, subArg, subProc,
                   subSnap, subRaced, nextTask, routed, aborted>>
    /\ UNCHANGED <<pendingTasks_, procMutex, tasks, runnableCoQue_, startedLog,
                   wakeupFd_>>
    /\ UNCHANGED <<lifeVars, coVars, extVars>>

\* Processor::run before its loop: stop_ cleared, hooking enabled, the epoll
\* coroutine created and its state set to EXEC.
RunStart ==
    /\ ~aborted
    /\ wpc[P0] = "created"
    /\ LET c == NewShell(proc) IN
       proc' = [MakeCo(proc, c, EpollCb) EXCEPT
                   !.stop_ = FALSE, !.hookEnabled = TRUE,
                   !.coState[c] = "EXEC", !.epollCo = c]
    /\ wpc' = [wpc EXCEPT ![P0] = "loop"]
    /\ UNCHANGED schedVars
    /\ UNCHANGED <<pendingTasks_, procMutex, tasks, runnableCoQue_, startedLog,
                   wakeupFd_>>
    /\ UNCHANGED <<lifeVars, coVars, extVars>>

\* Coroutine::swapIn: the target becomes the executing coroutine, EXEC.
\* Swapping into a finished coroutine is fatal.
swapIn(pr, co) == [pr EXCEPT !.coState[co] = "EXEC", !.cur = co]

\* The epoll coroutine is chosen whatever the runnable queue holds.
nextCoEpoll(pr) == pr.epollCo
\* The choice of cur in the loop of run(): the epoll coroutine when the
\* runnable queue is empty, else the coroutine dequeued from its head.
nextCo(pr) ==
    IF pr.runnableCoQue_ = <<>> THEN pr.epollCo ELSE Head(pr.runnableCoQue_)

\* The loop of run(): its condition, the choice of cur (the head of the
\* runnable queue, or the epoll coroutine with setEpolling(true) when the
\* queue is empty), cur->swapIn().
LoopPick ==
    /\ ~aborted
    /\ wpc[P0] = "loop"
    /\ IF proc.stop_ /\ proc.runnableCoQue_ = <<>>
         THEN /\ wpc' = [wpc EXCEPT ![P0] = "final"]
              /\ UNCHANGED <<proc, aborted>>
         ELSE LET co == nextCo(proc)
                  pr == IF proc.runnableCoQue_ = <<>>
                          THEN [proc EXCEPT !.isEpolling_ = TRUE]
                          ELSE [proc EXCEPT !.runnableCoQue_ = Tail(@)]
              IN  IF proc.coState[co] \in {"TERM", "EXCEPT"}
                    THEN /\ aborted' = TRUE
                         /\ UNCHANGED <<proc, wpc>>
                    ELSE /\ proc' = swapIn(pr, co)
                         /\ wpc' = [wpc EXCEPT ![P0] = "in"]
                         /\ UNCHANGED aborted
    /\ UNCHANGED <<threadNum_, running_, mainProc_, workProcVec_, schedMutex,
                   index, subPc, subArg, subProc, subSnap, subRaced, nextTask,
                   routed>>
    /\ UNCHANGED <<pendingTasks_, procMutex, tasks, runnableCoQue_, startedLog,
                   wakeupFd_>>
    /\ UNCHANGED <<lifeVars, coVars, extVars>>

\* The coroutine that is executing, 0 when the run loop itself is.
Executing == IF wpc[P0] \in {"in", "finalin"} THEN proc.cur ELSE 0

\* The callback returned: the trampoline sets TERM and swaps out.
finish(pr) == [pr EXCEPT !.coState[pr.cur] = "TERM"]
\* Coroutine::SwapOut of a coroutine that waits for an event: HOLD, its
\* waiter slot in the CoEpoll set.
suspend(pr) ==
    [pr EXCEPT !.coState[pr.cur] = "HOLD", !.waiting = @ \cup {pr.cur}]

\* Where run() continues when the executing coroutine swaps out.
Back == IF wpc[P0] = "in" THEN "after" ELSE "returned"

\* A user task's callback runs to its end.
UserFinish ==
    /\ ~aborted
    /\ wpc[P0] = "in"
    /\ IsUserCb(proc.coCb[proc.cur])
    /\ proc' = finish(proc)
    /\ wpc' = [wpc EXCEPT ![P0] = "after"]
    /\ UNCHANGED schedVars
    /\ UNCHANGED <<pendingTasks_, procMutex, tasks, runnableCoQue_, startedLog,
                   wakeupFd_>>
    /\ UNCHANGED <<lifeVars, coVars, extVars>>

\* A user task's callback makes a hooked call that would block: the
\* coroutine is registered as the waiter and swaps out.
UserSuspend ==
    /\ ~aborted
    /\ wpc[P0] = "in"
    /\ IsUserCb(proc.coCb[proc.cur])
    /\ proc.coLeft[proc.cur] > 0
    /\ proc' = [suspend(proc) EXCEPT !.coLeft[proc.cur] = @ - 1]
    /\ wpc' = [wpc EXCEPT ![P0] = "after"]
    /\ UNCHANGED schedVars
    /\ UNCHANGED <<pendingTasks_, procMutex, tasks, runnableCoQue_, startedLog,
                   wakeupFd_>>
    /\ UNCHANGED <<lifeVars, coVars, extVars>>

\* The "Wake" coroutine: while (!stop_) consumeWakeUp().  The hooked read
\* takes the eventfd's count when there is one and else suspends.
WakeStep ==
    /\ ~aborted
    /\ wpc[P0] = "in"
    /\ proc.coCb[proc.cur] = WakeCb
    /\ IF proc.stop_
         THEN /\ proc' = finish(proc)
              /\ wpc' = [wpc EXCEPT ![P0] = "after"]
              /\ UNCHANGED wakeupFd_
         ELSE IF wakeupFd_[P0]
                THEN /\ wakeupFd_' = [wakeupFd_ EXCEPT ![P0] = FALSE]
                     /\ UNCHANGED <<proc, wpc>>
                ELSE /\ proc' = suspend(proc)
                     /\ wpc' = [wpc EXCEPT ![P0] = "after"]
                     /\ UNCHANGED wakeupFd_
    /\ UNCHANGED schedVars
    /\ UNCHANGED <<pendingTasks_, procMutex, tasks, runnableCoQue_, startedLog>>
    /\ UNCHANGED <<lifeVars, coVars, extVars>>

\* The "timerQue" coroutine: while (!stop_) dealWithExpiredTimer(), which
\* suspends the coroutine until the next deadline.
TimerStep ==
    /\ ~aborted
    /\ wpc[P0] = "in"
    /\ proc.coCb[proc.cur] = TimerCb
    /\ proc' = IF proc.stop_ THEN finish(proc) ELSE suspend(proc)
    /\ wpc' = [wpc EXCEPT ![P0] = "after"]
    /\ UNCHANGED schedVars
    /\ UNCHANGED <<pendingTasks_, procMutex, tasks, runnableCoQue_, startedLog,
                   wakeupFd_>>
    /\ UNCHANGED <<lifeVars, coVars, extVars>>

\* The waiters an epoll_wait may report: the "Wake" coroutine only when the
\* eventfd is readable, any other waiter whenever its event arrives.
MayResume(pr) ==
    {c \in pr.waiting : pr.coCb[c] = WakeCb => wakeupFd_[P0]}

\* The timer expiries and I/O events among the events that resume R (the
\* eventfd's is not one).
Reported(pr, R) == Cardinality({c \in R : pr.coCb[c] # WakeCb})

\* The elements of a set of coroutines as a sequence, in increasing order.
RECURSIVE SeqOf(_)
SeqOf(S) ==
    IF S = {} THEN <<>>
    ELSE LET m == CHOOSE x \in S : \A y \in S : x <= y IN <<m>> \o SeqOf(S \ {m})

\* addTask(co) for every coroutine of cos, in order.
RECURSIVE resumeAll(_, _)
resumeAll(pr, cos) ==
    IF cos = <<>> THEN pr ELSE resumeAll(addTaskCo(pr, Head(cos)), Tail(cos))

\* CoEpoll::poll, one round of its loop while the Processor is not stopped:
\* the kernel wait ends (events, or the timeout), isEpolling_ is cleared,
\* the waiters of the reported events leave their slots and are handed to
\* the runnable queue with addTask, and the epoll coroutine swaps out.  Once
\* the Processor is stopped poll returns and the epoll coroutine finishes.
EpollTurn ==
    /\ ~aborted
    /\ wpc[P0] \in {"in", "finalin"}
    /\ proc.coCb[proc.cur] = EpollCb
    /\ IF proc.stop_
         THEN proc' = finish([proc EXCEPT !.isEpolling_ = FALSE])
         ELSE \E R \in SUBSET MayResume(proc) :
                 /\ proc.events + Reported(proc, R) <= MaxEvents
                 /\ proc' = resumeAll([proc EXCEPT
                                         !.waiting = @ \ R,
                                         !.isEpolling_ = FALSE,
                                         !.coState[proc.cur] = "HOLD",
                                         !.events = @ + Reported(proc, R)],
                                      SeqOf(R))
    /\ wpc' = [wpc EXCEPT ![P0] = Back]
    /\ UNCHANGED schedVars
    /\ UNCHANGED <<pendingTasks_, procMutex, tasks, runnableCoQue_, startedLog,
                   wakeupFd_>>
    /\ UNCHANGED <<lifeVars, coVars, extVars>>

\* The coroutine that swapped out is pushed whatever its state.
afterSwapInAlways(pr) ==
    [pr EXCEPT !.load_ = @ - 1, !.idleCoQue_ = Append(@, pr.cur)]
\* if (cur->getState() == TERM) { --load_; idleCoQue_.push(cur); }
afterSwapIn(pr) ==
    IF pr.coState[pr.cur] = "TERM"
      THEN [pr EXCEPT !.load_ = @ - 1, !.idleCoQue_ = Append(@, pr.cur)]
      ELSE pr

\* run() after cur->swapIn() returned: a finished coroutine is taken off
\* load_ and kept on the idle list.
AfterTurn ==
    /\ ~aborted
    /\ wpc[P0] = "after"
    /\ proc' = afterSwapIn(proc)
    /\ wpc' = [wpc EXCEPT ![P0] = "drain"]
    /\ UNCHANGED schedVars
    /\ UNCHANGED <<pendingTasks_, procMutex, tasks, runnableCoQue_, startedLog,
                   wakeupFd_>>
    /\ UNCHANGED <<lifeVars, coVars, extVars>>

\* addPendingTasksIntoQueue after the swap: the lock released, addTask(cb,
\* name) for each task taken, in order.
ProcDrainUnlock ==
    /\ ~aborted
    /\ wpc[P0] = "unlock"
    /\ Needed(proc, tasks[P0]) <= Cardinality(FreeShells(proc))
    /\ procMutex' = [procMutex EXCEPT ![P0] = UNLOCKED]
    /\ proc' = addTasks(proc, tasks[P0])
    /\ tasks' = [tasks EXCEPT ![P0] = <<>>]
    /\ wpc' = [wpc EXCEPT ![P0] = "loop"]
    /\ UNCHANGED schedVars
    /\ UNCHANGED <<pendingTasks_, runnableCoQue_, startedLog, wakeupFd_>>
    /\ UNCHANGED <<lifeVars, coVars, extVars>>

\* run() after its loop: epollCo->swapIn() once more.
FinalSwapIn ==
    /\ ~aborted
    /\ wpc[P0] = "final"
    /\ IF proc.coState[proc.epollCo] \in {"TERM", "EXCEPT"}
         THEN /\ aborted' = TRUE
              /\ UNCHANGED <<proc, wpc>>
         ELSE /\ proc' = swapIn(proc, proc.epollCo)
              /\ wpc' = [wpc EXCEPT ![P0] = "finalin"]
              /\ UNCHANGED aborted
    /\ UNCHANGED <<threadNum_, running_, mainProc_, workProcVec_, schedMutex,
                   index, subPc, subArg, subProc, subSnap, subRaced, nextTask,
                   routed>>
    /\ UNCHANGED <<pendingTasks_, procMutex, tasks, runnableCoQue_, startedLog,
                   wakeupFd_>>
    /\ UNCHANGED <<lifeVars, coVars, extVars>>

\* Processor::stop, called by the thread that stops the Scheduler: stop_
\* set, the eventfd written when the CoEpoll is polling.
ProcStop ==
    /\ ~aborted
    /\ wpc[P0] # "off"
    /\ proc' = [proc EXCEPT !.stop_ = TRUE]
    /\ wakeupFd_' = [wakeupFd_ EXCEPT ![P0] = @ \/ proc.isEpolling_]
    /\ UNCHANGED schedVars
    /\ UNCHANGED <<pendingTasks_, procMutex, tasks, runnableCoQue_, startedLog,
                   wpc>>
    /\ UNCHANGED <<lifeVars, coVars, extVars>>

(***************************************************************************)
(* Calls made on the Processor by a thread other than the one that owns it *)
(* (threadId_).  addTask, updateEvent and removeEvent do not call          *)
(* assertInProcThread: they act as they do on the owning thread.           *)
(***************************************************************************)
\* Processor::isInProcThread for a caller running on thread th.
isInProcThread(th) == th = P0

\* Processor::addTask(co) from thread th, with a coroutine th has made.
CallAddTask(th) ==
    /\ ~aborted
    /\ th # P0
    /\ wpc[P0] # "off"
    /\ proc.foreign < MaxForeign
    /\ FreeShells(proc) # {}
    /\ LET c == NewShell(proc) IN
       proc' = [addTaskCo(MakeCo(proc, c, ForeignCb), c) EXCEPT !.foreign = @ + 1]
    /\ wakeupFd_' = [wakeupFd_ EXCEPT ![P0] = @ \/ proc.isEpolling_]
    /\ UNCHANGED schedVars
    /\ UNCHANGED <<pendingTasks_, procMutex, tasks, runnableCoQue_, startedLog,
                   wpc>>
    /\ UNCHANGED <<lifeVars, coVars, extVars>>

\* Processor::updateEvent(fd, events, co) from thread th: CoEpoll::updateEvent
\* puts co into the waiter slot of fd.
CallUpdateEvent(th) ==
    /\ ~aborted
    /\ th # P0
    /\ wpc[P0] # "off"
    /\ proc.foreign < MaxForeign
    /\ FreeShells(proc) # {}
    /\ LET c == NewShell(proc) IN
       proc' = [MakeCo(proc, c, ForeignCb) EXCEPT
                   !.waiting = @ \cup {c}, !.foreign = @ + 1]
    /\ UNCHANGED schedVars
    /\ UNCHANGED workVars
    /\ UNCHANGED <<lifeVars, coVars, extVars>>

\* Processor::removeEvent(fd) from thread th: CoEpoll::removeEvent clears
\* the slots of fd, here the fd that coroutine c waits on.
CallRemoveEvent(th, c) ==
    /\ ~aborted
    /\ th # P0
    /\ wpc[P0] # "off"
    /\ proc.foreign < MaxForeign
    /\ c \in proc.waiting
    /\ proc' = [proc EXCEPT !.waiting = @ \ {c}, !.foreign = @ + 1]
    /\ UNCHANGED schedVars
    /\ UNCHANGED workVars
    /\ UNCHANGED <<lifeVars, coVars, extVars>>

(***************************************************************************)
(* Processor: one Scheduler with a single thread; its main Processor runs, *)
(* a thread submits tasks to it, another thread stops it, and a thread     *)
(* that does not own it calls its methods.                                 *)
(***************************************************************************)
InitProcessor ==
    /\ InitSched
    /\ threadNum_ = [s \in Scheds |-> 1]
    /\ InitWork
    /\ InitProc
    /\ InitLife
    /\ InitCo(NoCo)
    /\ InitExt

NextProcessor ==
    \/ MainStart
    \/ RunStart
    \/ LoopPick
    \/ UserFinish
    \/ UserSuspend
    \/ WakeStep
    \/ TimerStep
    \/ EpollTurn
    \/ AfterTurn
    \/ DrainLock(P0)
    \/ ProcDrainUnlock
    \/ FinalSwapIn
    \/ ProcStop
    \/ CallAddTask(SubThread(2))
    \/ CallUpdateEvent(SubThread(2))
    \/ \E c \in Shells : CallRemoveEvent(SubThread(2), c)
    \/ (nextTask <= MaxProcTasks /\ SubCall(1, 1))
    \/ SubPick(1)
    \/ SubReturn(1)
    \/ SubLoad(1)
    \/ SubStore(1)

SpecProcessor == InitProcessor /\ [][NextProcessor]_vars

(***************************************************************************)
(* Claims about the routing and the pending buffer.                        *)
(***************************************************************************)
\* The worker after w in the vector order of a Scheduler with W workers.
SuccWorker(w, W) == <<w[1], (w[2] % W) + 1>>

\* C1: with W >= 1 workers, the consecutive submissions of a Scheduler go to
\* its workers cyclically in vector order and never to its main Processor.
C1_RoundRobin ==
    \A s \in Scheds :
        LET W == Len(workProcVec_[s])
            r == routed[s]
        IN  W >= 1 =>
              \A i \in 1..Len(r) :
                  /\ r[i].proc \in {workProcVec_[s][k] : k \in 1..W}
                  /\ i < Len(r) => r[i + 1].proc = SuccWorker(r[i].proc, W)

\* Every submission has been made and handed over, and every Processor has
\* drained and run what it was given.
Quiescent ==
    /\ nextTask > MaxTasks
    /\ \A t \in Submitters : subPc[t] = "idle"
    /\ \A p \in Procs :
          /\ pendingTasks_[p] = <<>>
          /\ tasks[p] = <<>>
          /\ runnableCoQue_[p] = <<>>
          /\ wpc[p] # "unlock"

\* The tasks pickOneProcesser routed to p.
RoutedTo(p) ==
    {r.task : r \in UNION {{routed[s][i] : i \in 1..Len(routed[s])} : s \in Scheds}
            \cap [proc : {p}, task : Submitters \X (1..MaxTasks)]}

\* C2: the tasks submitted through Scheduler::addTask that land on one
\* Processor start there each exactly once, those of one submitting thread in
\* the order that thread submitted them; none is lost or duplicated.
C2_FifoExactlyOnce ==
    \A p \in Procs :
        LET l == startedLog[p] IN
        /\ \A i, j \in 1..Len(l) :
              i < j => /\ l[i] # l[j]
                       /\ l[i][1] = l[j][1] => l[i][2] < l[j][2]
        /\ Quiescent => {l[i] : i \in 1..Len(l)} = RoutedTo(p)

\* C7: every access to a Processor's pending buffer is made with the
\* Processor's mutex held: a thread inside the append holds it, so no other
\* append and no drain is under way at the same time.
C7_PendingUnderMutex ==
    \A t \in Submitters :
        subPc[t] = "store" =>
            /\ procMutex[subProc[t]] = SubThread(t)
            /\ MidAppend(subProc[t], t) = {}
            /\ wpc[subProc[t]] # "unlock"

(***************************************************************************)
(* Routing: every Scheduler of the process, started in any order, and the  *)
(* submissions made on them up to the append to the chosen Processor's     *)
(* pending buffer.                                                         *)
(***************************************************************************)
InitRouting == InitSched /\ InitWork /\ InitProc /\ InitLife /\ InitCo(NoCo) /\ InitExt

NextRouting ==
    \/ \E s \in Scheds : SchedStart(s)
    \/ \E t \in Submitters, s \in Scheds : SubCall(t, s)
    \/ \E t \in Submitters : SubPick(t)
    \/ \E t \in Submitters : SubReturn(t)
    \/ \E t \in Submitters : SubLoad(t)
    \/ \E t \in Submitters : SubStore(t)

SpecRouting == InitRouting /\ [][NextRouting]_vars

(***************************************************************************)
(* Pending: one Scheduler, the threads that submit to it and the run loops *)
(* of its Processors draining the pending buffers.                         *)
(***************************************************************************)
NextPending ==
    \/ SchedStart(1)
    \/ \E t \in Submitters : SubCall(t, 1)
    \/ \E t \in Submitters : SubPick(t)
    \/ \E t \in Submitters : SubReturn(t)
    \/ \E t \in Submitters : SubLoad(t)
    \/ \E t \in Submitters : SubStore(t)
    \/ \E p \in Procs : DrainLock(p)
    \/ \E p \in Procs : DrainUnlock(p)

SpecPending == InitRouting /\ [][NextPending]_vars

(***************************************************************************)
(* Claims about the Processor.                                             *)
(***************************************************************************)
\* run() has been entered and has not returned.
InRun == wpc[P0] \in {"loop", "in", "after", "drain", "unlock", "final", "finalin"}

\* C5: while a Processor runs, the only coroutine in state EXEC is the one
\* that is executing; a coroutine that is merely enqueued, and the epoll
\* coroutine while it does not run, are not in state EXEC.
C5_OnlyExecutingIsExec ==
    InRun =>
        /\ \A c \in Shells : proc.coState[c] = "EXEC" => c = Executing
        /\ Executing # 0 => proc.coState[Executing] = "EXEC"

\* The unfinished coroutines of the Processor that are enqueued as runnable
\* or executing, the epoll coroutine left out.
LiveTasks ==
    {c \in Shells :
        /\ proc.coState[c] \notin {"NONE", "TERM"}
        /\ proc.coCb[c] # EpollCb
        /\ \/ c = Executing
           \/ \E i \in 1..Len(proc.runnableCoQue_) : proc.runnableCoQue_[i] = c}

\* C6: between the turns of the loop and while a coroutine executes, load_
\* is the number of the Processor's unfinished coroutines that are enqueued
\* as runnable or executing, and it never goes below zero.
C6_LoadIsLiveCount ==
    wpc[P0] \in {"created", "loop", "in", "drain"} =>
        /\ proc.load_ = Cardinality(LiveTasks)
        /\ proc.load_ >= 0

\* A call of addTask(co), updateEvent or removeEvent made by thread th.
ForeignCall(th) ==
    \/ CallAddTask(th)
    \/ CallUpdateEvent(th)
    \/ \E c \in Shells : CallRemoveEvent(th, c)

\* C8: a call of addTask(co), updateEvent or removeEvent from a thread that
\* does not own the Processor raises a fatal error and leaves the runnable
\* queue, the load counter and the CoEpoll's registrations as they were.
C8_ForeignCallIsFatal ==
    [][ForeignCall(SubThread(2)) =>
          /\ aborted'
          /\ proc'.runnableCoQue_ = proc.runnableCoQue_
          /\ proc'.load_ = proc.load_
          /\ proc'.waiting = proc.waiting]_vars

(***************************************************************************)
(* The life cycle of Scheduler 1: startAsync on a user thread, start on    *)
(* thread_, the run loops of its Processors, stop called by a user thread  *)
(* or by a coroutine running on a Processor's thread, joinThread, wait.    *)
(* Of a run loop only what the life cycle depends on is kept: run() clears *)
(* stop_ and enables the hook when it is entered, and it returns once it   *)
(* finds stop_ set.                                                        *)
(***************************************************************************)
\* What the life cycle leaves alone.
schedRest == <<threadNum_, index, subPc, subArg, subProc, subSnap, subRaced,
               nextTask, routed>>
workRest == <<pendingTasks_, procMutex, tasks, runnableCoQue_, startedLog,
              wakeupFd_>>
lifeFrame == <<schedRest, workRest, proc, coVars, extVars>>

\* The user thread that calls startAsync.
U1 == SubThread(1)

\* Scheduler::startAsync before its wait: running_ is false, thread_ is
\* started on Scheduler::start.
StartAsync(u) ==
    /\ ~aborted
    /\ cpc[u] = "idle"
    /\ ~running_[1]
    /\ thread_' = "started"
    /\ tpc' = "start"
    /\ cpc' = [cpc EXCEPT ![u] = "sa_wait"]
    /\ UNCHANGED <<running_, mainProc_, workProcVec_, schedMutex, aborted, wpc>>
    /\ UNCHANGED <<stop_, hook, quit_, joinPc, joinBy, detached>>
    /\ UNCHANGED lifeFrame

\* cv_.wait(lock, pred) of startAsync, first half: mutex_ taken, the
\* predicate running_ == true evaluated.  True: the lock is released and
\* startAsync returns.  False: the thread is about to block.
CvCheck(u) ==
    /\ ~aborted
    /\ cpc[u] = "sa_wait"
    /\ schedMutex[1] = UNLOCKED
    /\ IF running_[1]
         THEN /\ cpc' = [cpc EXCEPT ![u] = "ready"]
              /\ UNCHANGED schedMutex
         ELSE /\ cpc' = [cpc EXCEPT ![u] = "sa_toblock"]
              /\ schedMutex' = [schedMutex EXCEPT ![1] = u]
    /\ UNCHANGED <<running_, mainProc_, workProcVec_, aborted, wpc>>
    /\ UNCHANGED <<stop_, hook, quit_, thread_, tpc, joinPc, joinBy, detached>>
    /\ UNCHANGED lifeFrame

\* cv_.wait, second half: the lock is released and the thread blocks until
\* cv_ is notified.
CvBlock(u) ==
    /\ ~aborted
    /\ cpc[u] = "sa_toblock"
    /\ cpc' = [cpc EXCEPT ![u] = "sa_blocked"]
    /\ schedMutex' = [schedMutex EXCEPT ![1] = UNLOCKED]
    /\ UNCHANGED <<running_, mainProc_, workProcVec_, aborted, wpc>>
    /\ UNCHANGED <<stop_, hook, quit_, thread_, tpc, joinPc, joinBy, detached>>
    /\ UNCHANGED lifeFrame

\* Scheduler::start on thread_ up to running_ = true: the main Processor
\* made, threadNum_ - 1 worker threads started, each with its Processor.
\* mutex_ is not taken.
StartBody ==
    /\ ~aborted
    /\ tpc = "start"
    /\ mainProc_' = [mainProc_ EXCEPT ![1] = P0]
    /\ workProcVec_' = [workProcVec_ EXCEPT ![1] = @ \o NewWorkers(1)]
    /\ wpc' = [p \in Procs |->
                 IF p[1] = 1 /\ p[2] < threadNum_[1] THEN "created" ELSE wpc[p]]
    /\ running_' = [running_ EXCEPT ![1] = TRUE]
    /\ tpc' = "notify"
    /\ UNCHANGED <<schedMutex, aborted>>
    /\ UNCHANGED <<stop_, hook, quit_, thread_, cpc, joinPc, joinBy, detached>>
    /\ UNCHANGED lifeFrame

\* Scheduler::start: cv_.notify_one() wakes a thread blocked on cv_, if
\* there is one; mainProc->run() follows.
StartNotify ==
    /\ ~aborted
    /\ tpc = "notify"
    /\ LET B == {u \in Users : cpc[u] = "sa_blocked"} IN
       IF B = {} THEN UNCHANGED cpc
       ELSE \E u \in B : cpc' = [cpc EXCEPT ![u] = "sa_wait"]
    /\ tpc' = "run"
    /\ UNCHANGED <<running_, mainProc_, workProcVec_, schedMutex, aborted, wpc>>
    /\ UNCHANGED <<stop_, hook, quit_, thread_, joinPc, joinBy, detached>>
    /\ UNCHANGED lifeFrame

\* A run() that leaves the hook flag of its thread as it finds it.
setHookEnabledSkipped(h, p) == h

\* setHookEnabled(true) on the thread of Processor p.
setHookEnabled(h, p) == [h EXCEPT ![p] = TRUE]

\* isHookEnable() as caller c finds it: the flag belongs to the thread, and
\* only a Processor's thread ever sets it.
isHookEnable(c) == IF c \in LifeProcs THEN hook[c] ELSE FALSE

\* Processor::run is entered on the Processor's thread (the main
\* Processor's after start's notify): stop_ = false, the hook enabled.
RunEnter(p) ==
    /\ ~aborted
    /\ wpc[p] = "created"
    /\ p = P0 => tpc = "run"
    /\ stop_' = [stop_ EXCEPT ![p] = FALSE]
    /\ hook' = setHookEnabled(hook, p)
    /\ wpc' = [wpc EXCEPT ![p] = "loop"]
    /\ UNCHANGED <<running_, mainProc_, workProcVec_, schedMutex, aborted>>
    /\ UNCHANGED <<quit_, thread_, tpc, cpc, joinPc, joinBy, detached>>
    /\ UNCHANGED lifeFrame

\* Processor::run finds stop_ set (and nothing left to run) when no
\* coroutine of it is inside a call: the loop ends, the last swapIn of the
\* epoll coroutine is made, run returns and the thread ends.
RunLoop(p) ==
    /\ ~aborted
    /\ wpc[p] = "loop"
    /\ cpc[p] \in {"idle", "st_done"}
    /\ stop_[p]
    /\ wpc' = [wpc EXCEPT ![p] = "returned"]
    /\ UNCHANGED <<running_, mainProc_, workProcVec_, schedMutex, aborted>>
    /\ UNCHANGED lifeVars
    /\ UNCHANGED lifeFrame

\* Caller c is free to call the Scheduler: a user thread that is in no call,
\* or a coroutine that runs on the thread of a Processor inside its loop.
CanCall(c) ==
    IF c \in LifeProcs THEN wpc[c] = "loop" /\ cpc[c] = "idle"
    ELSE cpc[c] \in {"idle", "ready"}

\* Scheduler::stop is entered and finds running_ set: if (!running_) return
\* is passed.  (A call that finds it clear returns at once.)  No lock is
\* held between this test and the assignment that follows.
Stop(c) ==
    /\ ~aborted
    /\ CanCall(c)
    /\ running_[1]
    /\ cpc' = [cpc EXCEPT ![c] = "st_clear"]
    /\ UNCHANGED <<running_, mainProc_, workProcVec_, schedMutex, aborted, wpc>>
    /\ UNCHANGED <<stop_, hook, quit_, thread_, tpc, joinPc, joinBy, detached>>
    /\ UNCHANGED lifeFrame

\* Scheduler::stop: running_ = false.
StopClear(c) ==
    /\ ~aborted
    /\ cpc[c] = "st_clear"
    /\ running_' = [running_ EXCEPT ![1] = FALSE]
    /\ cpc' = [cpc EXCEPT ![c] = "st_main"]
    /\ UNCHANGED <<mainProc_, workProcVec_, schedMutex, aborted, wpc>>
    /\ UNCHANGED <<stop_, hook, quit_, thread_, tpc, joinPc, joinBy, detached>>
    /\ UNCHANGED lifeFrame

\* Scheduler::stop: mainProc_->stop(); mainProc_ = nullptr.
StopMain(c) ==
    /\ ~aborted
    /\ cpc[c] = "st_main"
    /\ IF mainProc_[1] = NULL
         THEN /\ aborted' = TRUE
              /\ UNCHANGED <<stop_, mainProc_, cpc>>
         ELSE /\ stop_' = [stop_ EXCEPT ![mainProc_[1]] = TRUE]
              /\ mainProc_' = [mainProc_ EXCEPT ![1] = NULL]
              /\ cpc' = [cpc EXCEPT ![c] = "st_workers"]
              /\ UNCHANGED aborted
    /\ UNCHANGED <<running_, workProcVec_, schedMutex, wpc>>
    /\ UNCHANGED <<hook, quit_, thread_, tpc, joinPc, joinBy, detached>>
    /\ UNCHANGED lifeFrame

\* The Processors of the worker vector of Scheduler 1.
Workers == {workProcVec_[1][i] : i \in 1..Len(workProcVec_[1])}

\* Scheduler::stop: proc->stop() for every worker.
StopWorkers(c) ==
    /\ ~aborted
    /\ cpc[c] = "st_workers"
    /\ stop_' = [p \in Procs |-> IF p \in Workers THEN TRUE ELSE stop_[p]]
    /\ cpc' = [cpc EXCEPT ![c] = "st_join"]
    /\ UNCHANGED <<running_, mainProc_, workProcVec_, schedMutex, aborted, wpc>>
    /\ UNCHANGED <<hook, quit_, thread_, tpc, joinPc, joinBy, detached>>
    /\ UNCHANGED lifeFrame

\* Scheduler::stop: with the hook enabled on the calling thread joinThread is
\* started on a detached thread and stop returns; else the caller runs
\* joinThread itself.
StopJoin(c) ==
    /\ ~aborted
    /\ cpc[c] = "st_join"
    /\ joinPc = "none"
    /\ detached' = isHookEnable(c)
    /\ joinBy' = c
    /\ joinPc' = "thread"
    /\ cpc' = [cpc EXCEPT ![c] = IF isHookEnable(c) THEN "st_done" ELSE "joining"]
    /\ UNCHANGED <<running_, mainProc_, workProcVec_, schedMutex, aborted, wpc>>
    /\ UNCHANGED <<stop_, hook, quit_, thread_, tpc>>
    /\ UNCHANGED lifeFrame

\* The thread that runs joinThread is the thread of Processor p.
JoinerIs(p) == ~detached /\ joinBy = p

\* joinThread: if (thread_.joinable()) thread_.join().  The join ends when
\* start() has returned on thread_; a thread that joins itself fails.
JoinMain ==
    /\ ~aborted
    /\ joinPc = "thread"
    /\ IF thread_ # "started"
         THEN /\ joinPc' = "workers"
              /\ UNCHANGED <<thread_, aborted>>
         ELSE IF JoinerIs(P0)
                THEN /\ aborted' = TRUE
                     /\ UNCHANGED <<thread_, joinPc>>
                ELSE /\ tpc = "run"
                     /\ wpc[P0] = "returned"
                     /\ thread_' = "joined"
                     /\ joinPc' = "workers"
                     /\ UNCHANGED aborted
    /\ UNCHANGED <<running_, mainProc_, workProcVec_, schedMutex, wpc>>
    /\ UNCHANGED <<stop_, hook, quit_, tpc, cpc, joinBy, detached>>
    /\ UNCHANGED lifeFrame

\* joinThread: thrd->join() for every worker thread.
JoinWorkers ==
    /\ ~aborted
    /\ joinPc = "workers"
    /\ IF \E w \in Workers : JoinerIs(w)
         THEN /\ aborted' = TRUE
              /\ UNCHANGED joinPc
         ELSE /\ \A w \in Workers : wpc[w] = "returned"
              /\ joinPc' = "quit"
              /\ UNCHANGED aborted
    /\ UNCHANGED <<running_, mainProc_, workProcVec_, schedMutex, wpc>>
    /\ UNCHANGED <<stop_, hook, quit_, thread_, tpc, cpc, joinBy, detached>>
    /\ UNCHANGED lifeFrame

\* joinThread: quit_ = true; quitCv_.notify_one() wakes one thread blocked
\* on quitCv_, if there is one.  mutex_ is not taken.  A caller that ran
\* joinThread itself returns from stop.
JoinQuit ==
    /\ ~aborted
    /\ joinPc = "quit"
    /\ quit_' = TRUE
    /\ joinPc' = "done"
    /\ LET B == {u \in Users : cpc[u] = "w_blocked"}
           back == IF detached THEN cpc ELSE [cpc EXCEPT ![joinBy] = "st_done"]
       IN  IF B = {} THEN cpc' = back
           ELSE \E u \in B : cpc' = [back EXCEPT ![u] = "w_wait"]
    /\ UNCHANGED <<running_, mainProc_, workProcVec_, schedMutex, aborted, wpc>>
    /\ UNCHANGED <<stop_, hook, thread_, tpc, joinBy, detached>>
    /\ UNCHANGED lifeFrame

\* Scheduler::wait is called by a user thread.
Wait(u) ==
    /\ ~aborted
    /\ cpc[u] \in {"idle", "ready"}
    /\ cpc' = [cpc EXCEPT ![u] = "w_wait"]
    /\ UNCHANGED <<running_, mainProc_, workProcVec_, schedMutex, aborted, wpc>>
    /\ UNCHANGED <<stop_, hook, quit_, thread_, tpc, joinPc, joinBy, detached>>
    /\ UNCHANGED lifeFrame

\* quitCv_.wait(lock, pred) of wait, first half: mutex_ taken, the predicate
\* quit_ == true evaluated.
QuitCheck(u) ==
    /\ ~aborted
    /\ cpc[u] = "w_wait"
    /\ schedMutex[1] = UNLOCKED
    /\ IF quit_
         THEN /\ cpc' = [cpc EXCEPT ![u] = "w_done"]
              /\ UNCHANGED schedMutex
         ELSE /\ cpc' = [cpc EXCEPT ![u] = "w_toblock"]
              /\ schedMutex' = [schedMutex EXCEPT ![1] = u]
    /\ UNCHANGED <<running_, mainProc_, workProcVec_, aborted, wpc>>
    /\ UNCHANGED <<stop_, hook, quit_, thread_, tpc, joinPc, joinBy, detached>>
    /\ UNCHANGED lifeFrame

\* quitCv_.wait, second half: the lock is released and the thread blocks
\* until quitCv_ is notified.
QuitBlock(u) ==
    /\ ~aborted
    /\ cpc[u] = "w_toblock"
    /\ cpc' = [cpc EXCEPT ![u] = "w_blocked"]
    /\ schedMutex' = [schedMutex EXCEPT ![1] = UNLOCKED]
    /\ UNCHANGED <<running_, mainProc_, workProcVec_, aborted, wpc>>
    /\ UNCHANGED <<stop_, hook, quit_, thread_, tpc, joinPc, joinBy, detached>>
    /\ UNCHANGED lifeFrame

InitLifeCycle ==
    /\ InitSched
    /\ threadNum_[1] <= MaxLifeThreadNum
    /\ \A s \in Scheds : s # 1 => threadNum_[s] = 1
    /\ InitWork
    /\ InitProc
    /\ InitLife
    /\ InitCo(NoCo)
    /\ InitExt

NextLife ==
    \/ StartAsync(U1)
    \/ \E u \in Users : CvCheck(u)
    \/ \E u \in Users : CvBlock(u)
    \/ StartBody
    \/ StartNotify
    \/ \E p \in LifeProcs : RunEnter(p)
    \/ \E p \in LifeProcs : RunLoop(p)
    \/ \E c \in Callers : Stop(c)
    \/ \E c \in Callers : StopClear(c)
    \/ \E c \in Callers : StopMain(c)
    \/ \E c \in Callers : StopWorkers(c)
    \/ \E c \in Callers : StopJoin(c)
    \/ JoinMain
    \/ JoinWorkers
    \/ JoinQuit
    \/ \E u \in Users : Wait(u)
    \/ \E u \in Users : QuitCheck(u)
    \/ \E u \in Users : QuitBlock(u)

SpecLife == InitLifeCycle /\ [][NextLife]_vars

(***************************************************************************)
(* Claims about the life cycle.                                            *)
(***************************************************************************)
\* A user thread's stop() has asked every Processor to stop.
StopRequested == \E u \in Users : cpc[u] \in {"st_join", "joining", "st_done"}

\* C3: once stop() was called on the started Scheduler by a thread that is
\* not a Processor's, nothing keeps a run loop or a wait() from returning:
\* every Processor that is inside its loop has its stop flag set, and no
\* thread stays blocked in wait() once quit_ is set.
C3_StopEndsEveryRun ==
    StopRequested =>
        /\ \A p \in LifeProcs : wpc[p] = "loop" => stop_[p]
        /\ quit_ => \A u \in Users : cpc[u] # "w_blocked"

\* start() has made the main Processor and all threadNum_ - 1 workers and
\* has set the running flag.
Readied ==
    /\ tpc \in {"notify", "run"}
    /\ wpc[P0] # "off"
    /\ Len(workProcVec_[1]) = threadNum_[1] - 1

\* C4: startAsync does not return before start() on the new thread has made
\* the Processors and set the running flag, and once start() has signalled
\* this the caller is not left blocked in the wait.
C4_StartAsyncReady ==
    /\ cpc[U1] = "ready" => Readied
    /\ tpc = "run" => cpc[U1] # "sa_blocked"

\* C9: a stop() called by a coroutine on a Processor's thread never runs
\* joinThread on that thread: the join is made by a detached thread, no
\* thread joins itself, and the caller is never inside the join.
C9_StopOnProcessorDetaches ==
    \A p \in LifeProcs :
        /\ cpc[p] # "joining"
        /\ (joinPc # "none" /\ joinBy = p) => detached
        /\ ~JoinerIs(p)

\* stop() called by a coroutine has returned to it while its Processor is
\* still inside run(), and the detached thread is in joinThread.
C9_Witness ==
    \E p \in LifeProcs :
        /\ cpc[p] = "st_done"
        /\ wpc[p] = "loop"
        /\ joinBy = p
        /\ detached
        /\ joinPc = "thread"

(***************************************************************************)
(* The coroutine test: every thread makes one coroutine and drives it with *)
(* swapIn; the callback logs and calls SwapOut after each of its segments  *)
(* but the last, which returns.  The coroutine that runs on a thread is    *)
(* kept per thread.                                                        *)
(***************************************************************************)
\* What the coroutine test leaves alone (all but aborted).
coFrame == <<threadNum_, running_, mainProc_, workProcVec_, schedMutex, index,
             subPc, subArg, subProc, subSnap, subRaced, nextTask, routed,
             workVars, proc, lifeVars, extVars>>

\* The swapIn calls of the driver for a callback with k SwapOut calls
\* (testCo: three for runInCo's two).
SwapInCalls(k) == k + 1

\* A callback that never returns: every segment ends with SwapOut.
SegmentEndNever(s, k) == "SwapOut"

\* How segment s of a callback with k SwapOut calls ends (runInCo: the
\* first and the second with SwapOut, the third with the return).
SegmentEnd(s, k) == IF s <= k THEN "SwapOut" ELSE "return"

\* co->swapIn() by the driver of thread t: the coroutine becomes EXEC and
\* runs.  Swapping into a finished coroutine is fatal.
CoSwapIn(t) ==
    /\ ~aborted
    /\ coPos[t] = "main"
    /\ nSwapIn[t] < SwapInCalls(nSwapOut[t])
    /\ IF coState[t] \in {"TERM", "EXCEPT"}
         THEN /\ aborted' = TRUE
              /\ UNCHANGED <<coState, coPos, nSwapIn>>
         ELSE /\ coState' = [coState EXCEPT ![t] = "EXEC"]
              /\ coPos' = [coPos EXCEPT ![t] = "co"]
              /\ nSwapIn' = [nSwapIn EXCEPT ![t] = @ + 1]
              /\ UNCHANGED aborted
    /\ UNCHANGED <<nSwapOut, coLog, nSegment>>
    /\ UNCHANGED coFrame

\* The coroutine of thread t runs its next segment.  A segment that ends
\* with SwapOut has logged its line and leaves the coroutine HOLD; the last
\* one returns to the trampoline, which sets TERM.  Either way the driver
\* runs again.
CoSegment(t) ==
    LET s == nSegment[t] + 1 IN
    /\ ~aborted
    /\ coPos[t] = "co"
    /\ nSegment' = [nSegment EXCEPT ![t] = s]
    /\ IF SegmentEnd(s, nSwapOut[t]) = "SwapOut"
         THEN /\ coLog' = [coLog EXCEPT ![t] = Append(@, s)]
              /\ coState' = [coState EXCEPT ![t] = "HOLD"]
         ELSE /\ coState' = [coState EXCEPT ![t] = "TERM"]
              /\ UNCHANGED coLog
    /\ coPos' = [coPos EXCEPT ![t] = "main"]
    /\ UNCHANGED <<nSwapOut, nSwapIn, aborted>>
    /\ UNCHANGED coFrame

InitCoTest ==
    /\ InitSched
    /\ threadNum_ = [s \in Scheds |-> 1]
    /\ InitWork
    /\ InitProc
    /\ InitLife
    /\ \E k \in [CoThreads -> 0..MaxSwapOut] : InitCo(k)
    /\ InitExt

NextCo ==
    \/ \E t \in CoThreads : CoSwapIn(t)
    \/ \E t \in CoThreads : CoSegment(t)

SpecCo == InitCoTest /\ [][NextCo]_vars

\* The lines the first n logging segments write.
LogUpTo(n) == [i \in 1..n |-> i]
Min(a, b) == IF a <= b THEN a ELSE b

\* C10: on every thread, after n swapIn calls on a coroutine whose callback
\* calls SwapOut k times, exactly the first n segments have run, in order,
\* control is back with the driver, and the coroutine is TERM exactly when
\* n = k + 1; no swapIn of the k + 1 fails.
C10_SwapInRunsOneSegment ==
    /\ ~aborted
    /\ \A t \in CoThreads :
          LET k == nSwapOut[t]
              n == nSwapIn[t]
          IN  /\ coPos[t] = "main" =>
                    /\ nSegment[t] = n
                    /\ coLog[t] = LogUpTo(Min(n, k))
                    /\ (coState[t] = "TERM") <=> (n = k + 1)
              /\ coPos[t] = "co" =>
                    /\ nSegment[t] = n - 1
                    /\ coState[t] = "EXEC"

\* A thread has driven a coroutine with two SwapOut calls through its third
\* swapIn (log A, B, state TERM) while another thread is halfway.
C10_Witness ==
    \E t, u \in CoThreads :
        /\ t # u
        /\ nSwapOut[t] = 2 /\ nSwapIn[t] = 3 /\ coPos[t] = "main"
        /\ coLog[t] = <<1, 2>> /\ coState[t] = "TERM"
        /\ nSwapOut[u] = 2 /\ nSwapIn[u] = 1 /\ coState[u] = "HOLD"

(***************************************************************************)
(* Timers: Scheduler::runAt / runEvery / cancel and the CoTimerQueue of    *)
(* the Processor the timer was added to.                                   *)
(***************************************************************************)
timerFrame == <<schedVars, workVars, proc, lifeVars, coVars, conn>>

\* CoTimerQueue::addTimer(payload, deadline, interval): a new entry is put
\* into the ordered set.
addTimer(i, interval) ==
    /\ ~timers[i].added
    /\ timers' = [timers EXCEPT ![i] =
           [NoTimer EXCEPT !.added = TRUE, !.periodic = (interval > 0),
                           !.armed = TRUE]]

\* Scheduler::runAt and runAfter: a one-shot timer.
runAt(i) ==
    /\ addTimer(i, 0)
    /\ UNCHANGED timerFrame

\* Scheduler::runEvery: a periodic timer.
runEvery(i) ==
    /\ addTimer(i, 1)
    /\ UNCHANGED timerFrame

\* CoTimerQueue::dealWithExpiredTimers, for the entry of timer i whose
\* deadline has passed: a canceled entry is skipped and dropped; a live one
\* has its payload handed to the Processor as a new task (it runs in a
\* later turn of the run loop), and is put back when it is periodic.
dealWithExpiredTimers(i) ==
    /\ timers[i].armed
    /\ timers[i].queued + timers[i].fired < MaxExpire
    /\ timers' = [timers EXCEPT ![i] =
           IF timers[i].canceled
           THEN [@ EXCEPT !.armed = FALSE]
           ELSE [@ EXCEPT !.queued = @ + 1, !.armed = timers[i].periodic]]
    /\ UNCHANGED timerFrame

\* The run loop reaches the task made of the payload of timer i: the
\* payload fires.
TimerTask(i) ==
    /\ timers[i].queued > 0
    /\ timers' = [timers EXCEPT ![i] =
           [@ EXCEPT !.queued = @ - 1, !.fired = @ + 1]]
    /\ UNCHANGED timerFrame

\* Scheduler::cancel(timerId): dispatched to the CoTimerQueue of the owning
\* Processor, which marks the entry canceled; a second cancel changes
\* nothing.
cancel(i) ==
    /\ timers[i].added
    /\ timers' = [timers EXCEPT ![i] =
           IF timers[i].canceled
           THEN @
           ELSE [@ EXCEPT !.canceled = TRUE, !.firedAtCancel = timers[i].fired]]
    /\ UNCHANGED timerFrame

InitTimer ==
    /\ InitRouting
    /\ threadNum_ = [s \in Scheds |-> 1]

NextTimer ==
    \/ \E i \in Timers : runAt(i)
    \/ \E i \in Timers : runEvery(i)
    \/ \E i \in Timers : dealWithExpiredTimers(i)
    \/ \E i \in Timers : TimerTask(i)
    \/ \E i \in Timers : cancel(i)

SpecTimer == InitTimer /\ [][NextTimer]_vars

\* C11: once cancel has been applied to a timer its payload fires no more:
\* the number of runs of the payload stays what it was at the cancel (3 for
\* a periodic timer cancelled after its 3rd run).
C11_CanceledNeverFires ==
    \A i \in Timers :
        timers[i].canceled => timers[i].fired = timers[i].firedAtCancel

(***************************************************************************)
(* The Scheduler's Processors over setThreadNum, start and stop.           *)
(***************************************************************************)
\* Scheduler::setThreadNum: the count is stored, whenever it is called.
setThreadNum(s, n) ==
    /\ ~aborted
    /\ threadNum_' = [threadNum_ EXCEPT ![s] = n]
    /\ UNCHANGED <<running_, mainProc_, workProcVec_, schedMutex, index, subPc,
                   subArg, subProc, subSnap, subRaced, nextTask, routed,
                   aborted>>
    /\ UNCHANGED <<workVars, proc, lifeVars, coVars, extVars>>

\* The entries of a sequence.
Range(f) == {f[i] : i \in DOMAIN f}

\* Scheduler::stop on Scheduler 1, called by a user thread while start() is
\* in mainProc->run(): running_ cleared, every Processor asked to stop,
\* mainProc_ reset, the threads joined by joinThread, quit_ set.
SchedStop ==
    LET mine == {mainProc_[1]} \cup Range(workProcVec_[1])
    IN  /\ ~aborted
        /\ running_[1]
        /\ running_' = [running_ EXCEPT ![1] = FALSE]
        /\ stop_' = [p \in Procs |-> IF p \in mine THEN TRUE ELSE stop_[p]]
        /\ mainProc_' = [mainProc_ EXCEPT ![1] = NULL]
        /\ wpc' = [p \in Procs |-> IF p \in mine THEN "returned" ELSE wpc[p]]
        /\ quit_' = TRUE
        /\ UNCHANGED <<threadNum_, workProcVec_, schedMutex, index, subPc,
                       subArg, subProc, subSnap, subRaced, nextTask, routed,
                       aborted>>
        /\ UNCHANGED <<pendingTasks_, procMutex, tasks, runnableCoQue_,
                       startedLog, wakeupFd_, proc>>
        /\ UNCHANGED <<hook, thread_, tpc, cpc, joinPc, joinBy, detached>>
        /\ UNCHANGED <<coVars, extVars>>

InitRestart == InitRouting

NextRestart ==
    \/ \E s \in Scheds, n \in 1..MaxThreadNum : setThreadNum(s, n)
    \/ \E s \in Scheds : (Len(workProcVec_[s]) < MaxVec /\ SchedStart(s))
    \/ SchedStop

SpecRestart == InitRestart /\ [][NextRestart]_vars

\* start() has run on Scheduler s (Scheduler 1 is the one that is stopped).
Started(s) == running_[s] \/ (s = 1 /\ quit_)

\* C12: once start() has run no step changes workProcVec_, and the first
\* start() leaves n - 1 workers for the n given before it.
C12_ProcessorsFixed ==
    [][\A s \in Scheds :
          /\ Started(s) => workProcVec_'[s] = workProcVec_[s]
          /\ (~Started(s) /\ running_'[s]) =>
                 Len(workProcVec_'[s]) = threadNum_[s] - 1]_vars

(***************************************************************************)
(* The run loop of a Processor driven by its own thread, a thread that     *)
(* submits tasks to it and a thread that stops it.                         *)
(***************************************************************************)
NextLoop ==
    \/ MainStart
    \/ RunStart
    \/ LoopPick
    \/ UserFinish
    \/ UserSuspend
    \/ WakeStep
    \/ TimerStep
    \/ EpollTurn
    \/ AfterTurn
    \/ DrainLock(P0)
    \/ ProcDrainUnlock
    \/ FinalSwapIn
    \/ ProcStop
    \/ (nextTask <= MaxProcTasks /\ SubCall(1, 1))
    \/ SubPick(1)
    \/ SubReturn(1)
    \/ SubLoad(1)
    \/ SubStore(1)

SpecLoop == InitProcessor /\ [][NextLoop]_vars

(***************************************************************************)
(* The idle list of a Processor.                                           *)
(***************************************************************************)
\* C13: every coroutine on the idle list is TERM, is not in the runnable
\* queue and waits for no event, and is there once; so resetAndGetCo resets
\* only finished coroutines.
C13_IdleIsFinished ==
    \A i \in DOMAIN proc.idleCoQue_ :
        LET c == proc.idleCoQue_[i] IN
        /\ proc.coState[c] = "TERM"
        /\ c \notin Range(proc.runnableCoQue_)
        /\ c \notin proc.waiting
        /\ \A j \in DOMAIN proc.idleCoQue_ : proc.idleCoQue_[j] = c => j = i

\* The coroutine object made for "Wake" or "timerQue" finished, went to the
\* idle list, and was taken from it and reset for a submitted task, while
\* another finished coroutine is still on the list.
C13_Witness ==
    /\ proc.idleCoQue_ # <<>>
    /\ \E c \in {1, 2} :
          /\ IsUserCb(proc.coCb[c])
          /\ proc.coCb[c] # ForeignCb
          /\ proc.coState[c] \in {"EXEC", "HOLD"}

(***************************************************************************)
(* The choice between the runnable queue and the epoll coroutine.          *)
(***************************************************************************)
\* The epoll coroutine is executing inside the loop of run(): CoEpoll::poll
\* is in, or about to enter, the kernel wait.
KernelWait == wpc[P0] = "in" /\ proc.coCb[proc.cur] = EpollCb

Returned ==
    {routed[1][i].task : i \in DOMAIN routed[1]}
        \ {subArg[t].task : t \in {u \in Submitters : subPc[u] # "idle"}}

\* The tasks the main Processor still holds or has made a coroutine for: in
\* pendingTasks_, in the vector addPendingTasksIntoQueue swapped them into,
\* or the callback of one of its coroutines.
Held ==
    Range(pendingTasks_[P0]) \cup Range(tasks[P0])
        \cup {proc.coCb[c] : c \in Shells}

\* C15: a task another thread submitted to the running Processor gets
\* executed; stated for finite runs: once the submission has returned, the
\* task is in the pending buffer, among the tasks being drained, or has its
\* coroutine.
C15_SubmittedIsNotLost == Returned \subseteq Held

(***************************************************************************)
(* How Processor::run leaves its loop.                                     *)
(***************************************************************************)
\* run() is past its loop.
LeftLoop == wpc[P0] \in {"final", "finalin", "returned"}

AtAssert(t) ==
    /\ subPc[t] = "lock"
    /\ schedMutex[subArg[t].sched] = UNLOCKED
    /\ workProcVec_[subArg[t].sched] # <<>>

\* C17: whenever a thread evaluates assert(index < workProcVec_.size()) the
\* index is less than the number of workers of the Scheduler it is called
\* on.
C17_IndexBelowSize ==
    \A t \in Submitters :
        AtAssert(t) => index < Len(workProcVec_[subArg[t].sched])

(***************************************************************************)
(* Submissions made while the Scheduler is started and stopped: the life   *)
(* cycle of Scheduler 1, and a second user thread that calls addTask once  *)
(* start() has signalled readiness.                                        *)
(***************************************************************************)
\* The user thread that submits.
U2 == SubThread(2)

NextLate ==
    \/ StartAsync(U1)
    \/ \E u \in Users : CvCheck(u)
    \/ \E u \in Users : CvBlock(u)
    \/ StartBody
    \/ StartNotify
    \/ \E p \in LifeProcs : RunEnter(p)
    \/ \E p \in LifeProcs : RunLoop(p)
    \/ \E c \in Callers \ {U2} : Stop(c)
    \/ \E c \in Callers : StopClear(c)
    \/ \E c \in Callers : StopMain(c)
    \/ \E c \in Callers : StopWorkers(c)
    \/ \E c \in Callers : StopJoin(c)
    \/ JoinMain
    \/ JoinWorkers
    \/ JoinQuit
    \/ Wait(U1)
    \/ \E u \in Users : QuitCheck(u)
    \/ \E u \in Users : QuitBlock(u)
    \/ (tpc = "run" /\ SubEnter(2, 1))
    \/ SubPick(2)
    \/ SubReturn(2)
    \/ SubLoad(2)
    \/ SubStore(2)

SpecLate == InitLifeCycle /\ [][NextLate]_vars

\* The main Processor is gone: run() has returned, so start() returns and
\* its unique_ptr destroys the Processor.
Destroyed(p) == p = P0 /\ wpc[P0] = "returned"

\* C18: the Processor a submission made after start's readiness signal is
\* routed to is not null and still exists when the submission uses it.
C18_RoutedToLiveProcessor ==
    \A t \in Submitters :
        subPc[t] \in {"append", "store"} =>
            /\ subProc[t] # NULL
            /\ ~Destroyed(subProc[t])

(***************************************************************************)
(* Several calls of Scheduler::stop.                                       *)
(***************************************************************************)
\* The callers whose stop() has gone past running_ = false.
Stopping ==
    {c \in Callers :
        cpc[c] \in {"st_main", "st_workers", "st_join", "joining", "st_done"}}

\* C19: of any number of stop() calls on the started Scheduler at most one
\* goes past the running_ test and acts, and a caller that is about to ask
\* the main Processor to stop finds mainProc_ pointing at it.
C19_StopActsOnce ==
    /\ Cardinality(Stopping) <= 1
    /\ \A c \in Callers : cpc[c] = "st_main" => mainProc_[1] # NULL

(***************************************************************************)
(* TcpConnection (net/TcpConnection.cc): one connection, the events its    *)
(* Channel reports on the loop thread, and the calls users make on it from *)
(* the loop thread or from another thread.                                 *)
(***************************************************************************)
connFrame == <<threadNum_, running_, mainProc_, workProcVec_, schedMutex, index,
               subPc, subArg, subProc, subSnap, subRaced, nextTask, routed,
               workVars, proc, lifeVars, coVars, timers>>

\* The n bytes sendInLoop takes on after the first a.
Bytes(a, n) == [i \in 1..n |-> a + i]

\* A functor queued on the EventLoop.
Functor(op, len) == [op |-> op, len |-> len]

\* What sockets::write may return for n bytes: the count the kernel took,
\* -1 for EWOULDBLOCK, -2 for EPIPE or ECONNRESET (the only result once the
\* write side is shut down, a possible one once the peer has closed).
WriteResults(c, n) ==
    IF c.shutWr THEN {-2}
    ELSE (0..n) \cup {-1} \cup (IF c.peerClosed THEN {-2} ELSE {})

\* channel_->disableAll().
disableAll(c) == [c EXCEPT !.reading = FALSE, !.writing = FALSE]

\* TcpConnection::shutdownInLoop.
shutdownInLoop(c) == IF ~c.writing THEN [c EXCEPT !.shutWr = TRUE] ELSE c

\* sendInLoop writing to the socket whatever the Channel watches and the
\* output buffer holds.
sendInLoopAlwaysDirect(c, len, w) ==
    LET nwrote     == IF w > 0 THEN w ELSE 0
        faultError == w = -2
        data       == Bytes(c.given, len)
        c0         == [c EXCEPT !.passed = @ + len]
        c1         == [c0 EXCEPT !.given = @ + len,
                                 !.sent = @ \o SubSeq(data, 1, nwrote),
                                 !.fault = @ \/ faultError]
    IN  IF c.status = "kDisconnected" THEN c0
        ELSE IF ~faultError /\ len - nwrote > 0
               THEN [c1 EXCEPT !.out = @ \o SubSeq(data, nwrote + 1, len),
                               !.writing = TRUE]
               ELSE c1

\* TcpConnection::sendInLoop(data, len) when the write, if one is made,
\* returns w.  On a kDisconnected connection it gives up and the payload is
\* dropped.
sendInLoop(c, len, w) ==
    LET direct     == ~c.writing /\ c.out = <<>>
        nwrote     == IF direct /\ w > 0 THEN w ELSE 0
        faultError == direct /\ w = -2
        data       == Bytes(c.given, len)
        c0         == [c EXCEPT !.passed = @ + len]
        c1         == [c0 EXCEPT !.given = @ + len,
                                 !.sent = @ \o SubSeq(data, 1, nwrote),
                                 !.fault = @ \/ faultError]
    IN  IF c.status = "kDisconnected" THEN c0
        ELSE IF ~faultError /\ len - nwrote > 0
               THEN [c1 EXCEPT !.out = @ \o SubSeq(data, nwrote + 1, len),
                               !.writing = TRUE]
               ELSE c1

\* handleWrite leaving writability watched once the buffer is drained.
handleWriteKeepsInterest(c, w) ==
    IF w > 0
      THEN LET rest == SubSeq(c.out, w + 1, Len(c.out))
               c1   == [c EXCEPT !.sent = @ \o SubSeq(c.out, 1, w),
                                 !.out = rest]
           IN  IF rest = <<>> /\ c.status = "kDisconnecting"
                 THEN shutdownInLoop(c1) ELSE c1
      ELSE c

\* TcpConnection::handleWrite when the Channel watches writability and the
\* write returns w.
handleWrite(c, w) ==
    IF w > 0
      THEN LET rest == SubSeq(c.out, w + 1, Len(c.out))
               c1   == [c EXCEPT !.sent = @ \o SubSeq(c.out, 1, w),
                                 !.out = rest]
               c2   == IF rest = <<>> THEN [c1 EXCEPT !.writing = FALSE] ELSE c1
           IN  IF rest = <<>> /\ c.status = "kDisconnecting"
                 THEN shutdownInLoop(c2) ELSE c2
      ELSE c

\* The assertion of handleClose.
CloseAssert(c) == c.status \in {"kConnected", "kDisconnecting"}

\* TcpConnection::handleClose past its assertion; closeCallback_ (the
\* server's removeConnection) queues connectDestroyed on the loop.
handleClose(c) ==
    LET c1 == disableAll([c EXCEPT !.status = "kDisconnected"])
    IN  [c1 EXCEPT !.down = @ + 1, !.closed = @ + 1,
                   !.fns = Append(@, Functor("connectDestroyed", 0))]

\* TcpConnection::connectDestroyed.
connectDestroyed(c) ==
    LET c1 == IF c.status = "kConnected"
                THEN [disableAll([c EXCEPT !.status = "kDisconnected"])
                         EXCEPT !.down = @ + 1]
                ELSE c
    IN  [c1 EXCEPT !.removed = TRUE]

\* TcpConnection::connectEstablished, called once by the server on the loop
\* thread.
ConnectEstablished ==
    /\ ~aborted
    /\ ~conn.est
    /\ IF conn.status = "kConnecting"
         THEN /\ conn' = [conn EXCEPT !.status = "kConnected", !.est = TRUE,
                                      !.reading = TRUE, !.up = @ + 1]
              /\ UNCHANGED aborted
         ELSE /\ aborted' = TRUE
              /\ UNCHANGED conn
    /\ UNCHANGED connFrame

\* TcpConnection::send(message) on a connection that is kConnected (on any
\* other it does nothing): sendInLoop at once on the loop thread, queued
\* with runInLoop from another thread.
Send(len, inLoop) ==
    /\ ~aborted
    /\ conn.status = "kConnected"
    /\ conn.sends < MaxSends
    /\ LET c == [conn EXCEPT !.sends = @ + 1] IN
       IF inLoop
         THEN \E w \in WriteResults(c, len) : conn' = sendInLoop(c, len, w)
         ELSE conn' = [c EXCEPT !.fns = Append(@, Functor("sendInLoop", len))]
    /\ UNCHANGED <<aborted, connFrame>>

\* TcpConnection::shutdown on a connection that is kConnected (on any other
\* it does nothing): the status set, shutdownInLoop run at once on the loop
\* thread or queued with runInLoop from another thread.
Shutdown(inLoop) ==
    /\ ~aborted
    /\ conn.status = "kConnected"
    /\ LET c == [conn EXCEPT !.status = "kConnecting"] IN
       conn' = IF inLoop THEN shutdownInLoop(c)
               ELSE [c EXCEPT !.fns = Append(@, Functor("shutdownInLoop", 0))]
    /\ UNCHANGED <<aborted, connFrame>>

\* The EventLoop runs the functor at the head of its queue.
DoPending ==
    /\ ~aborted
    /\ conn.fns # <<>>
    /\ LET f == Head(conn.fns)
           c == [conn EXCEPT !.fns = Tail(@)]
       IN  CASE f.op = "sendInLoop" ->
                  \E w \in WriteResults(c, f.len) : conn' = sendInLoop(c, f.len, w)
             [] f.op = "shutdownInLoop" -> conn' = shutdownInLoop(c)
             [] f.op = "connectDestroyed" -> conn' = connectDestroyed(c)
    /\ UNCHANGED <<aborted, connFrame>>

\* The Channel reports the socket writable: handleWrite.
HandleWrite ==
    /\ ~aborted
    /\ conn.writing
    /\ ~conn.removed
    /\ \E w \in WriteResults(conn, Len(conn.out)) : conn' = handleWrite(conn, w)
    /\ UNCHANGED <<aborted, connFrame>>

\* The peer closes its side of the connection.
PeerClose ==
    /\ ~aborted
    /\ conn.est
    /\ ~conn.peerClosed
    /\ conn' = [conn EXCEPT !.peerClosed = TRUE]
    /\ UNCHANGED <<aborted, connFrame>>

\* The Channel reports the socket readable: handleRead, whose readFd returns
\* n: 1 for data (messageCallback_), 0 once the peer has closed
\* (handleClose).
HandleRead(n) ==
    /\ ~aborted
    /\ conn.reading
    /\ ~conn.removed
    /\ IF n > 0
         THEN /\ conn.reads < MaxReads
              /\ conn' = [conn EXCEPT !.reads = @ + 1]
              /\ UNCHANGED aborted
         ELSE /\ conn.peerClosed
              /\ IF CloseAssert(conn)
                   THEN /\ conn' = handleClose(conn)
                        /\ UNCHANGED aborted
                   ELSE /\ aborted' = TRUE
                        /\ UNCHANGED conn
    /\ UNCHANGED connFrame

\* The server is destroyed with the connection still in its map:
\* connectDestroyed without handleClose.
ConnectDestroyed ==
    /\ ~aborted
    /\ conn.est
    /\ ~conn.removed
    /\ conn.closed = 0
    /\ conn' = connectDestroyed(conn)
    /\ UNCHANGED <<aborted, connFrame>>

InitConn == InitTimer

NextConn ==
    \/ ConnectEstablished
    \/ \E len \in 1..MaxMsgLen, inLoop \in BOOLEAN : Send(len, inLoop)
    \/ \E inLoop \in BOOLEAN : Shutdown(inLoop)
    \/ DoPending
    \/ HandleWrite
    \/ PeerClose
    \/ \E n \in {0, 1} : HandleRead(n)
    \/ ConnectDestroyed

SpecConn == InitConn /\ [][NextConn]_vars

\* The Channel is about to report the end of the peer's data: handleRead
\* reads 0 and calls handleClose.
AtHandleClose == conn.reading /\ ~conn.removed /\ conn.peerClosed

\* C20: whenever handleClose runs the status is kConnected or
\* kDisconnecting, so its assertion holds.
C20_HandleCloseAssertHolds == AtHandleClose => CloseAssert(conn)

(***************************************************************************)
(* TcpConnection::shutdown: the half close.                                *)
(***************************************************************************)
\* shutdown() has been called on the connected connection, which has not
\* been disconnected since: connectEstablished leaves kConnecting for good,
\* so an established connection is in kConnecting or kDisconnecting only
\* through shutdown().
ShutdownCalled ==
    /\ conn.est
    /\ conn.status \in {"kConnecting", "kDisconnecting"}

\* The shutdownInLoop that shutdown() queued has not run yet.
ShutdownPending ==
    \E i \in 1..Len(conn.fns) : conn.fns[i].op = "shutdownInLoop"

\* C21: after shutdown() on a connected connection the write side of the
\* socket gets shut down: until it is, the connection is in kDisconnecting,
\* and once shutdownInLoop has run and the output buffer is empty (it was
\* empty already, or handleWrite has drained it) shutdownWrite has been
\* called.
C21_ShutdownReachesSocket ==
    (ShutdownCalled /\ ~aborted) =>
        /\ ~conn.shutWr => conn.status = "kDisconnecting"
        /\ (~ShutdownPending /\ conn.out = <<>>) => conn.shutWr

(***************************************************************************)
(* The byte stream of a TcpConnection.                                     *)
(***************************************************************************)
\* The bytes handed to the socket followed by the bytes in the output
\* buffer.
Stream == conn.sent \o conn.out

\* C22 as stated: without a fatal write error the bytes handed to the socket
\* followed by the bytes in the output buffer are the payloads of all calls
\* of sendInLoop, in order.
C22_AllPayloadsInStream ==
    ~conn.fault => Stream = Bytes(0, conn.passed)

\* C22: without a fatal write error the bytes handed to the socket followed
\* by the bytes in the output buffer are, in order, the payloads of the
\* calls of sendInLoop that found the connection not kDisconnected: of
\* these no byte is lost, duplicated or reordered.
C22_AcceptedPayloadsInStream ==
    ~conn.fault => Stream = Bytes(0, conn.given)

\* Two payloads were taken on; part of their bytes has gone to the socket
\* and part is still in the output buffer.
C22_Witness ==
    /\ ~conn.fault
    /\ conn.sends = MaxSends
    /\ conn.given >= 3
    /\ Len(conn.sent) >= 2
    /\ conn.out # <<>>

(***************************************************************************)
(* Write interest of the Channel.                                          *)
(***************************************************************************)
\* C23: on a connection that has not been disconnected the Channel watches
\* writability exactly when the output buffer is non-empty, after every
\* sendInLoop and every handleWrite: a drained buffer leaves no write
\* interest behind and buffered data is never without it.
C23_WritingIffBuffered ==
    conn.status # "kDisconnected" => (conn.writing <=> conn.out # <<>>)

\* sendInLoop buffered data and enabled write interest, shutdownInLoop
\* found the Channel writing, and handleWrite has since drained the buffer
\* and disabled write interest.
C23_Witness ==
    /\ ShutdownCalled
    /\ ~ShutdownPending
    /\ ~conn.shutWr
    /\ conn.sent # <<>>
    /\ conn.out = <<>>
    /\ ~conn.writing

(***************************************************************************)
(* The connection callback.                                                *)
(***************************************************************************)
\* C24: the user's connection callback is called exactly once for the
\* connection coming up, by connectEstablished, and exactly once for it
\* going down, by the time connectDestroyed has run, whether or not
\* handleClose ran before it and whether or not shutdown() was called.
C24_CallbackOncePerEdge ==
    /\ conn.up = (IF conn.est THEN 1 ELSE 0)
    /\ conn.down <= 1
    /\ conn.removed => conn.down = 1

====
